---- MODULE Spec2Model ----
(***************************************************************************)
(* The Ollama provider adapter of the mcp package (OllamaClient): its      *)
(* configuration fields, the SetAPIKey setter and the four hooks the base  *)
(* client calls (setAuthHeader, buildUrl, buildMCPRequestBody,             *)
(* parseMCPResponse), in the dual-format revision that chooses between the *)
(* native /api/chat dialect and the OpenAI-compatible dialect from the     *)
(* base URL.                                                               *)
(*                                                                         *)
(* URLs and credentials are sequences of one-character strings, so that    *)
(* strings.HasSuffix, strings.TrimSuffix, slicing and concatenation are    *)
(* computed, not assumed.  Model names and prompts are only copied by the  *)
(* code and are atomic strings.  A response body is a sequence of JSON     *)
(* tokens, decoded by a parser that follows encoding/json.                 *)
(***************************************************************************)
EXTENDS Integers, Sequences, FiniteSets, TLC

VARIABLES APIKey, BaseURL, Model, recentKey, wire, last, pc, req, setter

vars == <<APIKey, BaseURL, Model, recentKey, wire, last, pc, req, setter>>

config == <<APIKey, BaseURL, Model>>

----------------------------------------------------------------------------
(* Bounds of the model.                                                    *)

\* a base URL is the concatenation of at most MaxUrlParts parts of UrlParts
MaxUrlParts == 3
\* the longest credential is the first MaxKeyLen characters of KeyChars
MaxKeyLen == 11
\* a JSON object of a generated response has at most MaxFields members
MaxFields == 2

----------------------------------------------------------------------------
(* String literals of the source.                                          *)

NativeHttps == <<"h", "t", "t", "p", "s", ":", "/", "/", "o", "l", "l", "a", "m", "a", ".", "c", "o", "m">>
NativeHttp == <<"h", "t", "t", "p", ":", "/", "/", "o", "l", "l", "a", "m", "a", ".", "c", "o", "m">>
SuffixHost == <<"o", "l", "l", "a", "m", "a", ".", "c", "o", "m">>
SuffixHostSlash == <<"o", "l", "l", "a", "m", "a", ".", "c", "o", "m", "/">>
Slash == <<"/">>
ApiChat == <<"/", "a", "p", "i", "/", "c", "h", "a", "t">>
ChatCompletions == <<"/", "c", "h", "a", "t", "/", "c", "o", "m", "p", "l", "e", "t", "i", "o", "n", "s">>
Bearer == <<"B", "e", "a", "r", "e", "r", " ">>
DefaultOllamaBaseURL == <<"h", "t", "t", "p", "s", ":", "/", "/", "a", "p", "i", ".", "o", "l", "l", "a", "m", "a", ".", "c", "o", "m", "/", "v", "1">>
DefaultOllamaModel == "glm-4.7:cloud"

----------------------------------------------------------------------------
(* The strings package and Go's slice expression.                          *)

\* strings.HasSuffix(s, suffix)
HasSuffix(s, suffix) ==
    /\ Len(s) >= Len(suffix)
    /\ SubSeq(s, Len(s) - Len(suffix) + 1, Len(s)) = suffix

\* strings.TrimSuffix(s, suffix): s without the suffix, once, if it has it
TrimSuffix(s, suffix) ==
    IF HasSuffix(s, suffix) THEN SubSeq(s, 1, Len(s) - Len(suffix)) ELSE s

\* the value a slice expression out of range stands for: the call panics
PanicValue == <<"panic: slice bounds out of range">>

\* s[lo:hi]
Slice(s, lo, hi) ==
    IF 0 <= lo /\ lo <= hi /\ hi <= Len(s) THEN SubSeq(s, lo + 1, hi) ELSE PanicValue

----------------------------------------------------------------------------
(* Inputs.                                                                 *)

UrlParts ==
    { <<"h", "t", "t", "p", "s", ":", "/", "/">>,
      <<"h", "t", "t", "p", ":", "/", "/">>,
      <<"h", "t", "t", "p", "s", ":", "/", "/", "n", "o", "t">>,
      <<"h", "t", "t", "p", "s", ":", "/", "/", "a", "p", "i", ".", "e", "x", "a", "m", "p", "l", "e", ".", "c", "o", "m">>,
      <<"o", "l", "l", "a", "m", "a", ".", "c", "o", "m">>,
      <<"O", "l", "l", "a", "m", "a", ".", "c", "o", "m">>,
      <<"/">>,
      <<"/", "f", "o", "o">> }

RECURSIVE UrlsOf(_)
\* every concatenation of at most n parts (the empty URL for n = 0)
UrlsOf(n) ==
    IF n = 0 THEN {<<>>}
    ELSE LET shorter == UrlsOf(n - 1)
         IN shorter \cup { u \o p : u \in shorter, p \in UrlParts }

AllURLs == UrlsOf(MaxUrlParts) \cup {DefaultOllamaBaseURL}

\* the URLs a session passes to WithBaseURL and to SetAPIKey
SessionURLs ==
    { NativeHttps,
      NativeHttps \o Slash,
      <<"h", "t", "t", "p", "s", ":", "/", "/", "a", "p", "i", ".", "e", "x", "a", "m", "p", "l", "e", ".", "c", "o", "m">>,
      <<"h", "t", "t", "p", "s", ":", "/", "/", "n", "o", "t">> \o SuffixHost \o <<"/", "f", "o", "o">>,
      DefaultOllamaBaseURL }

KeyChars == <<"s", "k", "-", "1", "2", "3", "4", "5", "6", "7", "8", "9", "0", "a", "b", "c">>

\* the empty key, a key too short to slice, keys at the logging threshold, a long key
Keys == { SubSeq(KeyChars, 1, n) : n \in { 0, 3, 8, 9, MaxKeyLen } }

Models == { DefaultOllamaModel, "llama3" }

SystemPrompts == { "", "You are a trader." }

UserPrompts == { "", "Buy or sell?" }

----------------------------------------------------------------------------
(* The base client's defaults, used by the compatible branch.  They are    *)
(* opaque here: the value records which default ran and on what.           *)

\* Client.buildMCPRequestBody(systemPrompt, userPrompt), on the client's model
Client_buildMCPRequestBody(model, systemPrompt, userPrompt) ==
    [ builder |-> "Client.buildMCPRequestBody",
      model |-> model,
      systemPrompt |-> systemPrompt,
      userPrompt |-> userPrompt ]

\* Client.parseMCPResponse(body)
Client_parseMCPResponse(body) ==
    [ parser |-> "Client.parseMCPResponse", body |-> body ]

----------------------------------------------------------------------------
(* OllamaClient.SetAPIKey.                                                 *)

\* the "API Key: %s...%s" line, logged only for a key of more than 8 bytes
KeyLogLine(apiKey) ==
    IF Len(apiKey) > 8
    THEN << Slice(apiKey, 0, 4), Slice(apiKey, Len(apiKey) - 4, Len(apiKey)) >>
    ELSE << >>

\* SetAPIKey assigning the overrides without testing them for emptiness
SetAPIKey_alwaysOverwrites(oc, apiKey, customURL, customModel) ==
    [ APIKey |-> apiKey, BaseURL |-> customURL, Model |-> customModel,
      panic |-> FALSE,
      log |-> [ key |-> KeyLogLine(apiKey), url |-> "custom", urlArg |-> customURL,
                model |-> "custom", modelArg |-> customModel ] ]

\* SetAPIKey storing the URL override without its trailing slash
SetAPIKey_trimsURL(oc, apiKey, customURL, customModel) ==
    [ APIKey |-> apiKey,
      BaseURL |-> IF customURL # << >> THEN TrimSuffix(customURL, Slash) ELSE oc.BaseURL,
      Model |-> IF customModel # "" THEN customModel ELSE oc.Model,
      panic |-> FALSE,
      log |-> [ key |-> KeyLogLine(apiKey),
                url |-> IF customURL # << >> THEN "custom" ELSE "default",
                urlArg |-> IF customURL # << >> THEN customURL ELSE oc.BaseURL,
                model |-> IF customModel # "" THEN "custom" ELSE "default",
                modelArg |-> IF customModel # "" THEN customModel ELSE oc.Model ] ]

\* SetAPIKey on the fields oc: the fields after the call, what it logged, and
\* whether a slice expression panicked (the fields assigned before it stay)
SetAPIKey(oc, apiKey, customURL, customModel) ==
    LET keyLine == KeyLogLine(apiKey)
        panics == \E i \in 1..Len(keyLine) : keyLine[i] = PanicValue
    IN IF panics
       THEN [ APIKey |-> apiKey, BaseURL |-> oc.BaseURL, Model |-> oc.Model,
              panic |-> TRUE,
              log |-> [ key |-> << >>, url |-> "none", urlArg |-> << >>,
                        model |-> "none", modelArg |-> "" ] ]
       ELSE [ APIKey |-> apiKey,
              BaseURL |-> IF customURL # << >> THEN customURL ELSE oc.BaseURL,
              Model |-> IF customModel # "" THEN customModel ELSE oc.Model,
              panic |-> FALSE,
              log |-> [ key |-> keyLine,
                        url |-> IF customURL # << >> THEN "custom" ELSE "default",
                        urlArg |-> IF customURL # << >> THEN customURL ELSE oc.BaseURL,
                        model |-> IF customModel # "" THEN "custom" ELSE "default",
                        modelArg |-> IF customModel # "" THEN customModel ELSE oc.Model ] ]

----------------------------------------------------------------------------
(* The four hooks.                                                         *)

\* setAuthHeader adding the header only when none is there (Add for Set)
setAuthHeader_keepsExisting(apiKey, reqHeaders) ==
    IF reqHeaders.Authorization # << >> THEN reqHeaders
    ELSE [ reqHeaders EXCEPT !.Authorization = Bearer \o apiKey ]

\* setAuthHeader: reqHeaders.Set("Authorization", "Bearer "+oc.APIKey)
setAuthHeader(apiKey, reqHeaders) ==
    [ reqHeaders EXCEPT !.Authorization = Bearer \o apiKey ]

\* buildUrl without the test for the suffix "ollama.com/"
buildUrl_noSlashSuffix(baseURL) ==
    IF baseURL = NativeHttps \/ baseURL = NativeHttp
    THEN baseURL \o ApiChat
    ELSE IF HasSuffix(baseURL, SuffixHost)
         THEN TrimSuffix(baseURL, Slash) \o ApiChat
         ELSE baseURL \o ChatCompletions

\* buildUrl without the removal of the trailing slash
buildUrl_noTrim(baseURL) ==
    IF baseURL = NativeHttps \/ baseURL = NativeHttp
    THEN baseURL \o ApiChat
    ELSE IF HasSuffix(baseURL, SuffixHost) \/ HasSuffix(baseURL, SuffixHostSlash)
         THEN baseURL \o ApiChat
         ELSE baseURL \o ChatCompletions

\* buildUrl
buildUrl(baseURL) ==
    IF baseURL = NativeHttps \/ baseURL = NativeHttp
    THEN baseURL \o ApiChat
    ELSE IF HasSuffix(baseURL, SuffixHost) \/ HasSuffix(baseURL, SuffixHostSlash)
         THEN TrimSuffix(baseURL, Slash) \o ApiChat
         ELSE baseURL \o ChatCompletions

\* isNativeFormat of buildMCPRequestBody
isNativeFormatRequest(baseURL) ==
    \/ baseURL = NativeHttps
    \/ baseURL = NativeHttp
    \/ HasSuffix(baseURL, SuffixHost)
    \/ HasSuffix(baseURL, SuffixHostSlash)

\* the messages with a system entry even for an empty system prompt
NativeMessages_alwaysSystem(systemPrompt, userPrompt) ==
    << [ role |-> "system", content |-> systemPrompt ],
       [ role |-> "user", content |-> userPrompt ] >>

\* the messages of the native payload
NativeMessages(systemPrompt, userPrompt) ==
    (IF systemPrompt # ""
     THEN << [ role |-> "system", content |-> systemPrompt ] >>
     ELSE << >>)
    \o << [ role |-> "user", content |-> userPrompt ] >>

\* buildMCPRequestBody as it was before the compatible branch: always native
buildMCPRequestBody_alwaysNative(baseURL, model, systemPrompt, userPrompt) ==
    [ model |-> model,
      messages |-> NativeMessages(systemPrompt, userPrompt),
      stream |-> FALSE ]

\* buildMCPRequestBody
buildMCPRequestBody(baseURL, model, systemPrompt, userPrompt) ==
    IF isNativeFormatRequest(baseURL)
    THEN [ model |-> model,
           messages |-> NativeMessages(systemPrompt, userPrompt),
           stream |-> FALSE ]
    ELSE Client_buildMCPRequestBody(model, systemPrompt, userPrompt)

\* the parser's test with the two exact URLs only
isNativeFormatResponse_exactOnly(baseURL) ==
    \/ baseURL = NativeHttps
    \/ baseURL = NativeHttp

\* isNativeFormat of parseMCPResponse
isNativeFormatResponse(baseURL) ==
    \/ baseURL = NativeHttps
    \/ baseURL = NativeHttp
    \/ HasSuffix(baseURL, SuffixHost)
    \/ HasSuffix(baseURL, SuffixHostSlash)

----------------------------------------------------------------------------
(* encoding/json, as far as json.Unmarshal into the response struct goes.  *)
(* A body is a sequence of tokens; a token is a record [k, v].             *)

LBrace == [ k |-> "punct", v |-> "{" ]
RBrace == [ k |-> "punct", v |-> "}" ]
LBracket == [ k |-> "punct", v |-> "[" ]
RBracket == [ k |-> "punct", v |-> "]" ]
Colon == [ k |-> "punct", v |-> ":" ]
Comma == [ k |-> "punct", v |-> "," ]
Str(s) == [ k |-> "str", v |-> s ]
Num == [ k |-> "num", v |-> "1" ]
True == [ k |-> "lit", v |-> "true" ]
False == [ k |-> "lit", v |-> "false" ]
Null == [ k |-> "lit", v |-> "null" ]

\* a scan that found no JSON value
SyntaxError == [ ok |-> FALSE, val |-> [ k |-> "null", v |-> "" ], rest |-> << >> ]

RECURSIVE ParseValue(_)
RECURSIVE ParseMembers(_, _)
RECURSIVE ParseElements(_, _)

\* one JSON value at the head of ts: the value and the tokens after it
ParseValue(ts) ==
    IF ts = << >> THEN SyntaxError
    ELSE LET t == Head(ts)
         IN CASE t.k = "str" -> [ ok |-> TRUE, val |-> [ k |-> "str", v |-> t.v ], rest |-> Tail(ts) ]
              [] t.k = "num" -> [ ok |-> TRUE, val |-> [ k |-> "num", v |-> t.v ], rest |-> Tail(ts) ]
              [] t.k = "lit" /\ t.v = "null" ->
                    [ ok |-> TRUE, val |-> [ k |-> "null", v |-> "" ], rest |-> Tail(ts) ]
              [] t.k = "lit" /\ t.v # "null" ->
                    [ ok |-> TRUE, val |-> [ k |-> "bool", v |-> t.v ], rest |-> Tail(ts) ]
              [] t = LBrace ->
                    IF Len(ts) >= 2 /\ ts[2] = RBrace
                    THEN [ ok |-> TRUE, val |-> [ k |-> "obj", v |-> << >> ], rest |-> SubSeq(ts, 3, Len(ts)) ]
                    ELSE ParseMembers(Tail(ts), << >>)
              [] t = LBracket ->
                    IF Len(ts) >= 2 /\ ts[2] = RBracket
                    THEN [ ok |-> TRUE, val |-> [ k |-> "arr", v |-> << >> ], rest |-> SubSeq(ts, 3, Len(ts)) ]
                    ELSE ParseElements(Tail(ts), << >>)
              [] OTHER -> SyntaxError

\* the members of an object after its brace, acc being those already read
ParseMembers(ts, acc) ==
    IF Len(ts) < 3 \/ ts[1].k # "str" \/ ts[2] # Colon THEN SyntaxError
    ELSE LET r == ParseValue(SubSeq(ts, 3, Len(ts)))
             members == Append(acc, [ key |-> ts[1].v, val |-> r.val ])
         IN IF ~r.ok \/ r.rest = << >> THEN SyntaxError
            ELSE IF Head(r.rest) = Comma THEN ParseMembers(Tail(r.rest), members)
            ELSE IF Head(r.rest) = RBrace
                 THEN [ ok |-> TRUE, val |-> [ k |-> "obj", v |-> members ], rest |-> Tail(r.rest) ]
                 ELSE SyntaxError

\* the elements of an array after its bracket
ParseElements(ts, acc) ==
    LET r == ParseValue(ts)
        elements == Append(acc, r.val)
    IN IF ~r.ok \/ r.rest = << >> THEN SyntaxError
       ELSE IF Head(r.rest) = Comma THEN ParseElements(Tail(r.rest), elements)
       ELSE IF Head(r.rest) = RBracket
            THEN [ ok |-> TRUE, val |-> [ k |-> "arr", v |-> elements ], rest |-> Tail(r.rest) ]
            ELSE SyntaxError

\* a struct field is matched by its name, letter case ignored
FoldKey(key) ==
    CASE key = "Message" -> "message"
      [] key = "Content" -> "content"
      [] key = "DONE" -> "done"
      [] OTHER -> key

RECURSIVE DecodeMessage(_, _, _)
\* members i.. of the "message" object into the Message struct
DecodeMessage(members, i, acc) ==
    IF i > Len(members) THEN acc
    ELSE LET m == members[i]
             next == IF FoldKey(m.key) # "content" THEN acc
                     ELSE CASE m.val.k = "str" -> [ acc EXCEPT !.Content = m.val.v ]
                            [] m.val.k = "null" -> acc
                            [] OTHER -> [ acc EXCEPT !.typeError = TRUE ]
         IN DecodeMessage(members, i + 1, next)

RECURSIVE DecodeResult(_, _, _)
\* members i.. of the top-level object into the result struct
DecodeResult(members, i, acc) ==
    IF i > Len(members) THEN acc
    ELSE LET m == members[i]
             next == CASE FoldKey(m.key) = "message" ->
                            (CASE m.val.k = "obj" -> DecodeMessage(m.val.v, 1, acc)
                               [] m.val.k = "null" -> acc
                               [] OTHER -> [ acc EXCEPT !.typeError = TRUE ])
                       [] FoldKey(m.key) = "done" ->
                            (CASE m.val.k = "bool" -> [ acc EXCEPT !.Done = (m.val.v = "true") ]
                               [] m.val.k = "null" -> acc
                               [] OTHER -> [ acc EXCEPT !.typeError = TRUE ])
                       [] OTHER -> acc
         IN DecodeResult(members, i + 1, next)

\* json.Unmarshal(body, &result): the struct it leaves and whether it failed
Unmarshal(body) ==
    LET r == ParseValue(body)
        zero == [ Content |-> "", Done |-> FALSE, typeError |-> FALSE ]
    IN IF ~r.ok \/ r.rest # << >>
       THEN [ err |-> TRUE, Content |-> "", Done |-> FALSE ]
       ELSE LET d == CASE r.val.k = "obj" -> DecodeResult(r.val.v, 1, zero)
                       [] r.val.k = "null" -> zero
                       [] OTHER -> [ zero EXCEPT !.typeError = TRUE ]
            IN [ err |-> d.typeError, Content |-> d.Content, Done |-> d.Done ]

\* parseMCPResponse without the test for an empty content
parseMCPResponse_acceptsEmpty(baseURL, body) ==
    IF isNativeFormatResponse(baseURL)
    THEN LET result == Unmarshal(body)
         IN IF result.err
            THEN [ reply |-> "", err |-> "failed to parse Ollama response" ]
            ELSE [ reply |-> result.Content, err |-> "nil" ]
    ELSE Client_parseMCPResponse(body)

\* parseMCPResponse
parseMCPResponse(baseURL, body) ==
    IF isNativeFormatResponse(baseURL)
    THEN LET result == Unmarshal(body)
         IN IF result.err
            THEN [ reply |-> "", err |-> "failed to parse Ollama response" ]
            ELSE IF result.Content = ""
                 THEN [ reply |-> "", err |-> "Ollama returned empty response" ]
                 ELSE [ reply |-> result.Content, err |-> "nil" ]
    ELSE Client_parseMCPResponse(body)

----------------------------------------------------------------------------
(* The responses a server can put on the wire: JSON documents written in   *)
(* the tokens above, and what is left of one when the body is cut short.   *)

RECURSIVE JoinMembers(_)
JoinMembers(ms) ==
    IF ms = << >> THEN << >>
    ELSE IF Len(ms) = 1 THEN ms[1]
    ELSE ms[1] \o << Comma >> \o JoinMembers(Tail(ms))

\* the object with the members ms, each the tokens of "key": value
Object(ms) == << LBrace >> \o JoinMembers(ms) \o << RBrace >>

Member(key, val) == << Str(key), Colon >> \o val

SeqsUpTo(S, n) == UNION { [1..k -> S] : k \in 0..n }

\* {"message":{"content":content},"done":done}, the documented response
NativeResponse(content, done) ==
    Object(<< Member("message", Object(<< Member("content", << Str(content) >>) >>)),
              Member("done", << IF done THEN True ELSE False >>) >>)

Contents == { "", "hello" }

\* values of "message" that the Message struct accepts
GoodMessages ==
    { << Null >>,
      Object(<< >>),
      Object(<< Member("content", << Str("hello") >>) >>),
      Object(<< Member("content", << Str("") >>) >>),
      Object(<< Member("content", << Null >>) >>),
      Object(<< Member("role", << Str("assistant") >>), Member("content", << Str("hello") >>) >>),
      Object(<< Member("content", << Str("") >>), Member("content", << Str("hello") >>) >>),
      Object(<< Member("Content", << Str("hello") >>) >>) }

\* values of "message" of another JSON type than the struct's
BadMessages ==
    { << Str("hello") >>,
      << LBracket, Str("hello"), RBracket >>,
      Object(<< Member("content", << Num >>) >>) }

\* members that touch neither Message nor Done with a wrong type
GoodMembers ==
    { Member("message", m) : m \in GoodMessages }
    \cup { Member("Message", Object(<< Member("content", << Str("hello") >>) >>)),
           Member("done", << True >>),
           Member("done", << Null >>),
           Member("model", << Str("llama3") >>) }

\* members without any message content
SilentMembers ==
    { Member("done", << True >>),
      Member("done", << Null >>),
      Member("model", << Str("llama3") >>),
      Member("message", << Null >>),
      Member("message", Object(<< >>)),
      Member("message", Object(<< Member("content", << Null >>) >>)) }

\* members of a JSON type the struct field does not take
BadMembers ==
    { Member("message", m) : m \in BadMessages } \cup { Member("done", << Str("hello") >>) }

Documents ==
    { Object(ms) : ms \in SeqsUpTo(GoodMembers \cup BadMembers, MaxFields) }
    \cup { << Null >>, << Str("hello") >>, << Num >>, << True >>, << LBracket, RBracket >> }

\* documents with a member of the wrong type, or not an object at all
MistypedDocuments ==
    { Object(ms) : ms \in { s \in SeqsUpTo(GoodMembers \cup BadMembers, MaxFields) :
                              \E i \in 1..Len(s) : s[i] \in BadMembers } }
    \cup { << Str("hello") >>, << Num >>, << True >>, << LBracket, RBracket >> }

\* well-typed documents that carry no content
SilentDocuments ==
    { Object(ms) : ms \in SeqsUpTo(SilentMembers, MaxFields) } \cup { << Null >> }

\* a document cut short, the empty body included: never a JSON value
Truncated ==
    { b \in UNION { { SubSeq(d, 1, n) : n \in 0..(Len(d) - 1) } : d \in Documents } : TRUE }

\* a document followed by one more token
Trailing == { d \o << RBrace >> : d \in Documents }

Bodies ==
    Documents \cup Truncated \cup Trailing
    \cup { NativeResponse(c, d) : c \in Contents, d \in BOOLEAN }

\* the bodies a session receives
SampleBodies ==
    { NativeResponse("hello", TRUE),
      NativeResponse("", TRUE),
      << LBrace, Str("message") >> }

----------------------------------------------------------------------------
(* State.                                                                  *)
(*   APIKey, BaseURL, Model  the fields of the embedded Client the adapter *)
(*                           reads and SetAPIKey writes                    *)
(*   recentKey   the apiKey argument of the latest SetAPIKey (at first the *)
(*               key the constructor was given)                            *)
(*   wire        the response body the transport holds for the parser      *)
(*   last        the latest call on the adapter: the operation, the base   *)
(*               URL and model it found, its arguments and what it gave    *)
(*   pc, req     one request of the base client going through the hooks    *)
(*   setter      one SetAPIKey call made while that request is in flight   *)

NoCall == [ op |-> "none", baseURL |-> << >>, model |-> "", in |-> << >>, out |-> << >> ]

NoRequest ==
    [ systemPrompt |-> "", userPrompt |-> "",
      start |-> [ APIKey |-> << >>, BaseURL |-> << >>, Model |-> "" ],
      headers |-> << >>, url |-> << >>, payload |-> << >>, reply |-> << >>,
      sawKey |-> << >>, sawUrl |-> << >>, sawBodyUrl |-> << >>, sawBodyModel |-> "",
      sawParseUrl |-> << >> ]

NoSetter == [ state |-> "none", apiKey |-> << >>, customURL |-> << >>, customModel |-> "", at |-> "" ]

\* the headers the base client hands to setAuthHeader
IncomingHeaders ==
    { [ Authorization |-> << >>, ContentType |-> "application/json" ],
      [ Authorization |-> << "B", "e", "a", "r", "e", "r", " ", "o", "l", "d" >>,
        ContentType |-> "application/json" ] }

HookOps == { "setAuthHeader", "buildUrl", "buildMCPRequestBody", "parseMCPResponse" }

\* NewOllamaClientWithOptions: the presets, then the caller's options
Constructed(keys, urls, models) ==
    /\ APIKey \in keys
    /\ BaseURL \in urls \cup { DefaultOllamaBaseURL }
    /\ Model \in models \cup { DefaultOllamaModel }
    /\ recentKey = APIKey
    /\ last = NoCall
    /\ pc = "idle"
    /\ req = NoRequest

----------------------------------------------------------------------------
(* A session: the caller sets the key and calls the hooks in any order.    *)

Init ==
    /\ Constructed({ << >>, SubSeq(KeyChars, 1, MaxKeyLen) }, { }, { })
    /\ wire = << >>
    /\ setter = NoSetter

SetAPIKeyCall ==
    \E apiKey \in Keys, customURL \in SessionURLs \cup { << >> }, customModel \in Models \cup { "" } :
        LET oc == [ APIKey |-> APIKey, BaseURL |-> BaseURL, Model |-> Model ]
            r == SetAPIKey(oc, apiKey, customURL, customModel)
        IN /\ APIKey' = r.APIKey
           /\ BaseURL' = r.BaseURL
           /\ Model' = r.Model
           /\ recentKey' = apiKey
           /\ last' = [ op |-> "SetAPIKey", baseURL |-> BaseURL, model |-> Model,
                        in |-> [ apiKey |-> apiKey, customURL |-> customURL, customModel |-> customModel ],
                        out |-> [ panic |-> r.panic, log |-> r.log ] ]
           /\ UNCHANGED << wire, pc, req, setter >>

SetAuthHeaderCall ==
    \E reqHeaders \in IncomingHeaders :
        /\ last' = [ op |-> "setAuthHeader", baseURL |-> BaseURL, model |-> Model,
                     in |-> reqHeaders, out |-> setAuthHeader(APIKey, reqHeaders) ]
        /\ UNCHANGED << APIKey, BaseURL, Model, recentKey, wire, pc, req, setter >>

BuildUrlCall ==
    /\ last' = [ op |-> "buildUrl", baseURL |-> BaseURL, model |-> Model,
                 in |-> << >>, out |-> buildUrl(BaseURL) ]
    /\ UNCHANGED << APIKey, BaseURL, Model, recentKey, wire, pc, req, setter >>

\* buildMCPRequestBody on the base URL that was current before the latest
\* SetAPIKey, as if the format were computed once and kept
BuildMCPRequestBodyCall_stale ==
    \E systemPrompt \in SystemPrompts, userPrompt \in UserPrompts :
        /\ last' = [ op |-> "buildMCPRequestBody", baseURL |-> BaseURL, model |-> Model,
                     in |-> [ systemPrompt |-> systemPrompt, userPrompt |-> userPrompt ],
                     out |-> buildMCPRequestBody(IF last.op = "SetAPIKey" THEN last.baseURL ELSE BaseURL,
                                                 Model, systemPrompt, userPrompt) ]
        /\ UNCHANGED << APIKey, BaseURL, Model, recentKey, wire, pc, req, setter >>

BuildMCPRequestBodyCall ==
    \E systemPrompt \in SystemPrompts, userPrompt \in UserPrompts :
        /\ last' = [ op |-> "buildMCPRequestBody", baseURL |-> BaseURL, model |-> Model,
                     in |-> [ systemPrompt |-> systemPrompt, userPrompt |-> userPrompt ],
                     out |-> buildMCPRequestBody(BaseURL, Model, systemPrompt, userPrompt) ]
        /\ UNCHANGED << APIKey, BaseURL, Model, recentKey, wire, pc, req, setter >>

\* the transport has read a response body
Receive ==
    \E body \in SampleBodies :
        /\ wire' = body
        /\ UNCHANGED << APIKey, BaseURL, Model, recentKey, last, pc, req, setter >>

ParseMCPResponseCall ==
    /\ last' = [ op |-> "parseMCPResponse", baseURL |-> BaseURL, model |-> Model,
                 in |-> wire, out |-> parseMCPResponse(BaseURL, wire) ]
    /\ UNCHANGED << APIKey, BaseURL, Model, recentKey, wire, pc, req, setter >>

Next ==
    \/ SetAPIKeyCall
    \/ SetAuthHeaderCall
    \/ BuildUrlCall
    \/ BuildMCPRequestBodyCall
    \/ Receive
    \/ ParseMCPResponseCall

Spec == Init /\ [][Next]_vars

----------------------------------------------------------------------------
(* The parser on every body of Bodies, under a few base URLs.              *)

ParseURLs ==
    { NativeHttps,
      NativeHttp \o Slash,
      DefaultOllamaBaseURL }

InitParse ==
    /\ Constructed({ << >> }, ParseURLs, { })
    /\ wire \in Bodies
    /\ setter = NoSetter

NextParse == ParseMCPResponseCall

SpecParse == InitParse /\ [][NextParse]_vars

----------------------------------------------------------------------------
(* One request of the base client: it calls the hooks in the order         *)
(* setAuthHeader, buildUrl, buildMCPRequestBody, sends, and hands the      *)
(* response to parseMCPResponse.                                           *)

Begin ==
    /\ pc = "idle"
    /\ \E systemPrompt \in SystemPrompts, userPrompt \in { "Buy or sell?" } :
          req' = [ NoRequest EXCEPT !.systemPrompt = systemPrompt,
                                    !.userPrompt = userPrompt,
                                    !.start = [ APIKey |-> APIKey, BaseURL |-> BaseURL, Model |-> Model ] ]
    /\ pc' = "auth"
    /\ UNCHANGED << APIKey, BaseURL, Model, recentKey, wire, last, setter >>

ReqAuth ==
    /\ pc = "auth"
    /\ req' = [ req EXCEPT !.headers = setAuthHeader(APIKey, [ Authorization |-> << >>,
                                                                ContentType |-> "application/json" ]),
                           !.sawKey = APIKey ]
    /\ pc' = "url"
    /\ UNCHANGED << APIKey, BaseURL, Model, recentKey, wire, last, setter >>

ReqUrl ==
    /\ pc = "url"
    /\ req' = [ req EXCEPT !.url = buildUrl(BaseURL), !.sawUrl = BaseURL ]
    /\ pc' = "body"
    /\ UNCHANGED << APIKey, BaseURL, Model, recentKey, wire, last, setter >>

ReqBody ==
    /\ pc = "body"
    /\ req' = [ req EXCEPT !.payload = buildMCPRequestBody(BaseURL, Model, req.systemPrompt, req.userPrompt),
                           !.sawBodyUrl = BaseURL,
                           !.sawBodyModel = Model ]
    /\ pc' = "send"
    /\ UNCHANGED << APIKey, BaseURL, Model, recentKey, wire, last, setter >>

\* the transport sends the request and reads the response
ReqSend ==
    /\ pc = "send"
    /\ \E body \in SampleBodies : wire' = body
    /\ pc' = "parse"
    /\ UNCHANGED << APIKey, BaseURL, Model, recentKey, last, req, setter >>

ReqParse ==
    /\ pc = "parse"
    /\ req' = [ req EXCEPT !.reply = parseMCPResponse(BaseURL, wire), !.sawParseUrl = BaseURL ]
    /\ pc' = "done"
    /\ UNCHANGED << APIKey, BaseURL, Model, recentKey, wire, last, setter >>

\* SetAPIKey with a URL override, called once, wherever the request stands
SetterCall ==
    /\ setter.state = "ready"
    /\ \E apiKey \in { << >>, SubSeq(KeyChars, 1, MaxKeyLen) }, customURL \in SessionURLs,
          customModel \in Models \cup { "" } :
          LET oc == [ APIKey |-> APIKey, BaseURL |-> BaseURL, Model |-> Model ]
              r == SetAPIKey(oc, apiKey, customURL, customModel)
          IN /\ APIKey' = r.APIKey
             /\ BaseURL' = r.BaseURL
             /\ Model' = r.Model
             /\ recentKey' = apiKey
             /\ setter' = [ state |-> "done", apiKey |-> apiKey, customURL |-> customURL,
                            customModel |-> customModel, at |-> pc ]
    /\ UNCHANGED << wire, last, pc, req >>

\* every base URL of AllURLs, no SetAPIKey
InitFormat ==
    /\ Constructed({ << >>, SubSeq(KeyChars, 1, MaxKeyLen) }, AllURLs, { "llama3" })
    /\ wire = << >>
    /\ setter = NoSetter

NextFormat ==
    \/ Begin
    \/ ReqAuth
    \/ ReqUrl
    \/ ReqBody
    \/ ReqSend
    \/ ReqParse

SpecFormat == InitFormat /\ [][NextFormat]_vars

\* a request and one SetAPIKey call, interleaved in every way
InitRequest ==
    /\ Constructed({ << >> }, SessionURLs, Models)
    /\ wire = << >>
    /\ setter = [ NoSetter EXCEPT !.state = "ready" ]

NextRequest ==
    \/ Begin
    \/ ReqAuth
    \/ ReqUrl
    \/ ReqBody
    \/ ReqSend
    \/ ReqParse
    \/ SetterCall

SpecRequest == InitRequest /\ [][NextRequest]_vars

----------------------------------------------------------------------------
(* What the properties below are stated in: the classification as the      *)
(* specification words it, and the wire format a result shows.             *)

EndsWith(s, suffix) ==
    /\ Len(s) >= Len(suffix)
    /\ \A i \in 1..Len(suffix) : s[Len(s) - Len(suffix) + i] = suffix[i]

StripOneSlash(s) ==
    IF Len(s) > 0 /\ s[Len(s)] = "/" THEN [ i \in 1..(Len(s) - 1) |-> s[i] ] ELSE s

Contains(s, part) ==
    \E k \in 0..(Len(s) - Len(part)) : \A i \in 1..Len(part) : s[k + i] = part[i]

OllamaCom == << "o", "l", "l", "a", "m", "a", ".", "c", "o", "m" >>

HttpsOllamaCom == << "h", "t", "t", "p", "s", ":", "/", "/" >> \o OllamaCom

HttpOllamaCom == << "h", "t", "t", "p", ":", "/", "/" >> \o OllamaCom

ApiExampleCom ==
    << "h", "t", "t", "p", "s", ":", "/", "/", "a", "p", "i", ".", "e", "x", "a", "m", "p", "l", "e", ".", "c", "o", "m" >>

NotOllamaFoo ==
    << "h", "t", "t", "p", "s", ":", "/", "/", "n", "o", "t" >> \o OllamaCom \o << "/", "f", "o", "o" >>

ApiChatPath == << "/", "a", "p", "i", "/", "c", "h", "a", "t" >>

CompletionsPath ==
    << "/", "c", "h", "a", "t", "/", "c", "o", "m", "p", "l", "e", "t", "i", "o", "n", "s" >>

BearerPrefix == << "B", "e", "a", "r", "e", "r", " " >>

\* NativeFormat as the specification defines it
ClaimedNative(u) ==
    \/ u = HttpsOllamaCom
    \/ u = HttpOllamaCom
    \/ EndsWith(StripOneSlash(u), OllamaCom)

\* the request URL the specification gives for base URL u
ClaimedUrl(u) ==
    IF ClaimedNative(u) THEN StripOneSlash(u) \o ApiChatPath ELSE u \o CompletionsPath

\* the message list the specification gives for a pair of prompts
ClaimedMessages(systemPrompt, userPrompt) ==
    IF systemPrompt = ""
    THEN << [ role |-> "user", content |-> userPrompt ] >>
    ELSE << [ role |-> "system", content |-> systemPrompt ],
            [ role |-> "user", content |-> userPrompt ] >>

UrlIsNative(url) == EndsWith(url, ApiChatPath)

PayloadIsNative(payload) == "stream" \in DOMAIN payload

ReplyIsNative(reply) == "err" \in DOMAIN reply

DecodeError == "failed to parse Ollama response"

EmptyReplyError == "Ollama returned empty response"

UrlBuilt == pc \in { "body", "send", "parse", "done" }

PayloadBuilt == pc \in { "send", "parse", "done" }

----------------------------------------------------------------------------
C3_SameFormatAtEveryHook ==
    pc = "done" =>
        /\ UrlIsNative(req.url) <=> PayloadIsNative(req.payload)
        /\ UrlIsNative(req.url) <=> ReplyIsNative(req.reply)
        /\ PayloadIsNative(req.payload) <=> ClaimedNative(BaseURL)

C3_Witness ==
    /\ pc = "done"
    /\ BaseURL = OllamaCom \o << "/" >>
    /\ APIKey = << >>
    /\ Model = "llama3"
    /\ UrlIsNative(req.url)
    /\ PayloadIsNative(req.payload)
    /\ ReplyIsNative(req.reply)

\* the wire format the result of a hook call shows
FormatOfCall(call) ==
    CASE call.op = "buildUrl" -> UrlIsNative(call.out)
      [] call.op = "buildMCPRequestBody" -> PayloadIsNative(call.out)
      [] call.op = "parseMCPResponse" -> ReplyIsNative(call.out)

(* C4: the format is never cached.  Whatever SetAPIKey calls and hook     *)
(* calls came before, a call of buildUrl, buildMCPRequestBody or           *)
(* parseMCPResponse answers in the format of the base URL current at the   *)
(* call; no hook call changes the credential, the base URL or the model;   *)
(* and a hook called again with the same arguments gives the same result.  *)
C4_NeverCached ==
    [][ last'.op \in HookOps =>
          /\ UNCHANGED << APIKey, BaseURL, Model >>
          /\ last'.op # "setAuthHeader" => (FormatOfCall(last') <=> ClaimedNative(BaseURL))
          /\ (last.op = last'.op /\ last.in = last'.in) => last'.out = last.out ]_vars

\* a hook answers in the native format after SetAPIKey has replaced the
\* compatible base URL the client was constructed with
C4_Witness ==
    /\ last.op = "parseMCPResponse"
    /\ Len(recentKey) = 3
    /\ BaseURL = HttpsOllamaCom
    /\ last.out = [ reply |-> "hello", err |-> "nil" ]

(* C5: SetAPIKey always overwrites the credential with apiKey, empty or    *)
(* short keys included; it overwrites the base URL only when customURL is  *)
(* not empty and the model only when customModel is not empty, and leaves  *)
(* them as they were otherwise; it fails for no credential length.         *)
C5_SetAPIKeyFrame ==
    last.op = "SetAPIKey" =>
        /\ APIKey = last.in.apiKey
        /\ BaseURL = IF last.in.customURL = << >> THEN last.baseURL ELSE last.in.customURL
        /\ Model = IF last.in.customModel = "" THEN last.model ELSE last.in.customModel
        /\ ~last.out.panic

C5_Witness ==
    /\ last.op = "SetAPIKey"
    /\ last.in = [ apiKey |-> << "s", "k", "-", "1", "2", "3", "4", "5", "6", "7", "8" >>,
                   customURL |-> << >>, customModel |-> "" ]
    /\ BaseURL = last.baseURL
    /\ Model = last.model
    /\ BaseURL = ApiExampleCom
    /\ Model = "llama3"

(* C6: in the native format the payload's messages are one system entry    *)
(* with the system prompt, present exactly when that prompt is not empty,  *)
(* then exactly one user entry with the user prompt; its model is the      *)
(* configured model and its stream flag is false.                          *)
C6_NativePayload ==
    (last.op = "buildMCPRequestBody" /\ ClaimedNative(last.baseURL)) =>
        /\ DOMAIN last.out = { "model", "messages", "stream" }
        /\ last.out.messages = ClaimedMessages(last.in.systemPrompt, last.in.userPrompt)
        /\ Len(last.out.messages) = IF last.in.systemPrompt = "" THEN 1 ELSE 2
        /\ last.out.model = Model
        /\ last.out.stream = FALSE

C6_Witness ==
    /\ last.op = "buildMCPRequestBody"
    /\ BaseURL = HttpsOllamaCom \o << "/" >>
    /\ Model = "llama3"
    /\ last.in.systemPrompt # ""
    /\ Len(last.out.messages) = 2
    /\ last.out.messages[1].role = "system"
    /\ last.out.messages[2].role = "user"

(* C7: in the native format parseMCPResponse gives exactly one of: the     *)
(* decode error, when the body is not JSON of the response's shape (cut    *)
(* short, followed by more, or with a member of another type); the empty   *)
(* reply error, when it decodes and message.content is empty; the content  *)
(* and no error otherwise.  A reply is never empty and never comes with    *)
(* an error.                                                               *)
C7_NativeParse ==
    (last.op = "parseMCPResponse" /\ ClaimedNative(last.baseURL)) =>
        LET r == last.out
            body == last.in
        IN /\ DOMAIN r = { "reply", "err" }
           /\ r.err \in { "nil", DecodeError, EmptyReplyError }
           /\ r.err = "nil" <=> r.reply # ""
           /\ body \in Truncated => r.err = DecodeError
           /\ body \in Trailing => r.err = DecodeError
           /\ body \in MistypedDocuments => r.err = DecodeError
           /\ body \in SilentDocuments => r.err = EmptyReplyError
           /\ \A c \in Contents, d \in BOOLEAN :
                 body = NativeResponse(c, d) =>
                    r = IF c = "" THEN [ reply |-> "", err |-> EmptyReplyError ]
                        ELSE [ reply |-> c, err |-> "nil" ]

C7_Witness ==
    /\ last.op = "parseMCPResponse"
    /\ ClaimedNative(last.baseURL)
    /\ last.in = NativeResponse("", TRUE)
    /\ last.out = [ reply |-> "", err |-> EmptyReplyError ]

(* C8: in the compatible format the payload and the parsed response are    *)
(* what the base client's default builder and default parser return for    *)
(* the same arguments; the native payload and the native parsing are not   *)
(* used.                                                                   *)
C8_CompatibleDelegates ==
    /\ (PayloadBuilt /\ ~ClaimedNative(req.sawBodyUrl)) =>
          /\ req.payload = Client_buildMCPRequestBody(req.sawBodyModel, req.systemPrompt, req.userPrompt)
          /\ ~PayloadIsNative(req.payload)
    /\ (pc = "done" /\ ~ClaimedNative(req.sawParseUrl)) =>
          /\ req.reply = Client_parseMCPResponse(wire)
          /\ ~ReplyIsNative(req.reply)

C8_Witness ==
    /\ pc = "done"
    /\ req.sawParseUrl = NotOllamaFoo
    /\ wire = NativeResponse("hello", TRUE)
    /\ req.reply = Client_parseMCPResponse(wire)
    /\ req.payload = Client_buildMCPRequestBody("llama3", "You are a trader.", "Buy or sell?")

(* C9: setAuthHeader sets Authorization to "Bearer " and the credential    *)
(* configured at the call, which is the apiKey of the latest SetAPIKey,    *)
(* for every base URL of either format; it leaves the other headers and    *)
(* every configuration field as they were.                                 *)
C9_BearerHeader ==
    last.op = "setAuthHeader" =>
        /\ last.out.Authorization = BearerPrefix \o recentKey
        /\ last.out.ContentType = last.in.ContentType
        /\ APIKey = recentKey
        /\ BaseURL = last.baseURL
        /\ Model = last.model

C9_Witness ==
    /\ last.op = "setAuthHeader"
    /\ recentKey = << "s", "k", "-" >>
    /\ last.in.Authorization # << >>
    /\ last.out.Authorization = << "B", "e", "a", "r", "e", "r", " ", "s", "k", "-" >>
    /\ ClaimedNative(BaseURL)

\* the model after the interleaved SetAPIKey call
NewModel ==
    IF setter.customModel = "" THEN req.start.Model ELSE setter.customModel

OldOrNewUrl(u) ==
    u = req.start.BaseURL \/ (setter.state = "done" /\ u = setter.customURL)

OldOrNewModel(m) ==
    m = req.start.Model \/ (setter.state = "done" /\ m = NewModel)

====
